---- MODULE Spec2Model ----
(***************************************************************************)
(* The three-stage council of backend/council.py, its bounded fan-out      *)
(* (backend/groq_client.py) and the two endpoints that drive it            *)
(* (backend/main.py: send_message -> run_full_council, and the event       *)
(* generator of send_message_stream).                                      *)
(***************************************************************************)
EXTENDS Integers, Sequences, FiniteSets, TLC

VARIABLES
    mode,            \* "batch" (send_message) or "stream" (send_message_stream)
    max_concurrent,  \* query_models_parallel's max_concurrent argument
    pc,              \* position of the orchestrating coroutine
    status1,         \* stage-1 invocation of each council model
    status2,         \* stage-2 invocation of each council model
    status3,         \* the chairman invocation of stage 3
    arrival,         \* completion order of the latest fan-out that has had
                     \* a completion (forgotten when stage 3 returns)
    stage1_results,
    stage2_results,
    labels,
    label_to_model,
    stage3_result,
    result,          \* what run_full_council returned (<< >> before)
    events,          \* the types of the events the stream has yielded
    ranking_text,    \* the argument of parse_ranking_from_text, as tokens
    parsed_ranking,  \* its return value
    parse_pc,        \* "idle", "called" or "returned"
    conversation,    \* the roles of the messages of the conversation that
                     \* the endpoint loaded when the request arrived
    title_task,      \* generate_conversation_title: "none", "running", "done"
    aggregate_rankings,
    previous_messages, \* the prior turns handed to the stages, as roles
    queries,         \* how often query_model was called, per stage and model
    conversation_history, \* run_full_council's formatted history, or None
    prompts,         \* the context section of each stage's prompt
    requests,        \* the requests that run concurrently on one
                     \* conversation: mode, position and loaded conversation
    files,           \* data/conversations: the stored conversation of each
                     \* id (<< >> where there is no file)
    ret,             \* what the latest storage call returned
    log              \* the storage calls made so far, in call order

run_vars == <<mode, max_concurrent, pc, status1, status2, status3, arrival,
              stage1_results, stage2_results, labels, label_to_model,
              stage3_result, result, events>>

parser_vars == <<ranking_text, parsed_ranking, parse_pc>>

request_vars == <<conversation, title_task, aggregate_rankings,
                  previous_messages, queries>>

context_vars == <<conversation_history, prompts>>

storage_vars == <<files, ret, log>>

vars == <<run_vars, parser_vars, request_vars, context_vars, requests,
          storage_vars>>

(***************************************************************************)
(* Configuration (backend/config.py) and defaults.                         *)
(***************************************************************************)
COUNCIL_MODELS ==
    << "llama-3.1-8b-instant", "llama-3.3-70b-versatile",
       "openai/gpt-oss-120b", "openai/gpt-oss-20b" >>

CHAIRMAN_MODEL == "llama-3.3-70b-versatile"

DEFAULT_MAX_CONCURRENT == 5

Models == {COUNCIL_MODELS[i] : i \in 1..Len(COUNCIL_MODELS)}

\* The values of max_concurrent a caller of query_models_parallel may pass.
ConcurrencyCaps == 1..DEFAULT_MAX_CONCURRENT

Terminal == {"ok", "fail"}

(***************************************************************************)
(* query_models_parallel: one task per model, gated by a semaphore.        *)
(***************************************************************************)
Outstanding(status) == {m \in DOMAIN status : status[m] = "running"}

Issued(status) == {m \in DOMAIN status : status[m] # "idle"}

\* asyncio.Semaphore(max_concurrent): acquire passes while a slot is free.
SlotFree_OffByOne(status) == Cardinality(Outstanding(status)) <= max_concurrent

SlotFree_OneShort(status) ==
    Cardinality(Outstanding(status)) < max_concurrent - 1

SlotFree(status) == Cardinality(Outstanding(status)) < max_concurrent

\* await asyncio.gather(*tasks) returns once every task has finished.
GatherDone_First(status) == \E m \in DOMAIN status : status[m] \in Terminal

GatherDone(status) == \A m \in DOMAIN status : status[m] \in Terminal

\* gather returns the responses in the order of its arguments; zip(models,
\* responses) makes a dict whose iteration order is that of the models.
GatheredOrder_Arrival == arrival

GatheredOrder == COUNCIL_MODELS

\* The tasks query_with_semaphore(model) for model in models are created.
FanOut(models) == [m \in models |-> "queued"]

NotStarted(models) == [m \in models |-> "idle"]

\* The completions so far of the fan-out whose invocations are in status.
ArrivalOf(status) ==
    IF \E m \in DOMAIN status : status[m] \in Terminal THEN arrival ELSE << >>

\* async with semaphore: the task enters and calls query_model.
Admitted(status, m) == [status EXCEPT ![m] = "running"]

\* query_model returns a response dict, or None on any exception; the
\* semaphore is released on the way out.
Finished_CancelSiblings(status, m, ok) ==
    [x \in DOMAIN status |->
        IF x = m THEN (IF ok THEN "ok" ELSE "fail")
        ELSE IF ~ok /\ status[x] \notin Terminal THEN "fail"
        ELSE status[x]]

Finished(status, m, ok) == [status EXCEPT ![m] = IF ok THEN "ok" ELSE "fail"]

(***************************************************************************)
(* Stage result lists (council.py, stage1_collect_responses 70-79 and      *)
(* stage2_collect_rankings 163-175).                                       *)
(***************************************************************************)
Succeeded(status) == SelectSeq(GatheredOrder, LAMBDA m : status[m] = "ok")

Stage1Results(status) ==
    [i \in 1..Len(Succeeded(status)) |->
        [model |-> Succeeded(status)[i], response |-> "answer"]]

(***************************************************************************)
(* Anonymised labels (council.py, stage2_collect_rankings 98-105).         *)
(***************************************************************************)
\* The characters with code points 65, 66, ... as chr gives them (the
\* backslash, 92, and the backtick, 96, are spelled out).
CharsFrom65 ==
    << "A", "B", "C", "D", "E", "F", "G", "H", "I", "J", "K", "L", "M",
       "N", "O", "P", "Q", "R", "S", "T", "U", "V", "W", "X", "Y", "Z",
       "[", "BACKSLASH", "]", "^", "_", "BACKTICK", "a", "b", "c", "d" >>

Chr(code) == CharsFrom65[code - 64]

UppercaseLetters == {CharsFrom65[i] : i \in 1..26}

\* labels = [chr(65 + i) for i in range(n)]
LabelAt_Halved(i) == Chr(65 + (i \div 2))

LabelAt(i) == Chr(65 + i)

Labels(n) == [i \in 1..n |-> LabelAt(i - 1)]

ResponseLabel(letter) == "Response " \o letter

\* {f"Response {label}": result['model'] for label, result in zip(...)}:
\* a dict, so a key written twice keeps its last value.
LabelToModel(lbls, results) ==
    LET n    == IF Len(lbls) < Len(results) THEN Len(lbls) ELSE Len(results)
        keys == {ResponseLabel(lbls[i]) : i \in 1..n}
        last(k) == CHOOSE i \in 1..n :
                      /\ ResponseLabel(lbls[i]) = k
                      /\ \A j \in 1..n : ResponseLabel(lbls[j]) = k => j <= i
    IN  [k \in keys |-> results[last(k)].model]

\* "if not stage1_results" of run_full_council.
NoModelsResponded_Never(results) == FALSE

NoModelsResponded(results) == Len(results) = 0

ErrorResult ==
    [stage1 |-> << >>, stage2 |-> << >>,
     stage3 |-> [model |-> "error",
                 response |-> "All models failed to respond. Please try again."],
     metadata |-> << >>]

\* stage3_synthesize_final's return value.
SynthesisResult_ErrorTagged(ok) ==
    [model |-> IF ok THEN CHAIRMAN_MODEL ELSE "error",
     response |-> IF ok THEN "synthesis"
                  ELSE "Error: Unable to generate final synthesis."]

SynthesisResult(ok) ==
    [model |-> CHAIRMAN_MODEL,
     response |-> IF ok THEN "synthesis"
                  ELSE "Error: Unable to generate final synthesis."]

\* No call of parse_ranking_from_text is being followed.
ParserIdle ==
    /\ ranking_text = << >>
    /\ parsed_ranking = << >>
    /\ parse_pc = "idle"

(***************************************************************************)
(* Conversation context (council.py 8-34, 361-365 and 397).  A message is  *)
(* known by its kind, a history by its lines; a prompt by whether it has a *)
(* context section and by the history that section quotes.                 *)
(***************************************************************************)
\* "user" and "assistant" are the messages that storage.py writes; an
\* assistant message whose stage3 is missing or empty and a message of any
\* other role are the ones format_conversation_history passes over.
MessageKinds == {"user", "assistant", "assistant_without_stage3", "system"}

\* conversation_messages[-6:]
HISTORY_WINDOW == 6

NoneValue == [none |-> TRUE]

\* format_conversation_history 23-32: the line of one message, if any.
HistoryLine(kind) ==
    IF kind = "user" THEN << "User:" >>
    ELSE IF kind = "assistant" THEN << "Assistant:" >>
    ELSE << >>

RECURSIVE HistoryLines(_)
HistoryLines(messages) ==
    IF messages = << >> THEN << >>
    ELSE HistoryLine(Head(messages)) \o HistoryLines(Tail(messages))

LastMessages(messages, n) ==
    SubSeq(messages, IF Len(messages) > n THEN Len(messages) - n + 1 ELSE 1,
           Len(messages))

\* format_conversation_history 8-34: the lines that "\n".join puts together
\* (no line at all is the empty string).
format_conversation_history(messages) ==
    IF messages = << >>
    THEN << "No previous conversation history." >>
    ELSE HistoryLines(LastMessages(messages, HISTORY_WINDOW))

\* run_full_council 361-365; event_generator 220, 229, 240.
ConversationHistory(messages) ==
    IF messages # << >>
    THEN [text |-> format_conversation_history(messages)]
    ELSE NoneValue

\* if conversation_history: neither None nor the empty string.
IsTruthy(history) == history # NoneValue /\ history.text # << >>

\* stage1_collect_responses 54-61, stage2_collect_rankings 113-120,
\* stage3_synthesize_final 211-218: the context section of the prompt.
Prompt(history) ==
    IF IsTruthy(history)
    THEN [with_context |-> TRUE, history |-> history.text]
    ELSE [with_context |-> FALSE, history |-> << >>]

NoPrompts == [stage1 |-> << >>, stage2 |-> << >>, stage3 |-> << >>]

\* run_full_council 397
HadContextFlag(history) == history # NoneValue

ContextIdle ==
    /\ conversation_history = NoneValue
    /\ prompts = NoPrompts

(***************************************************************************)
(* Conversation storage (backend/storage.py): one JSON file per            *)
(* conversation id.  The timestamps created_at, updated_at and timestamp   *)
(* are left out: no caller reads them.                                     *)
(***************************************************************************)
ConversationIds == {"c1", "c2"}

DefaultTitle == "New Conversation"

NoFiles == [id \in ConversationIds |-> << >>]

\* The two requests of a concurrent pair.
Requests == {"r1", "r2"}

NoRequests ==
    [r \in Requests |-> [mode |-> "batch", pc |-> "none", loaded |-> << >>]]

StorageIdle ==
    /\ requests = NoRequests
    /\ files = NoFiles
    /\ ret = FALSE
    /\ log = << >>

\* create_conversation 21-36: the record it writes.
NewConversation(conversation_id) ==
    [id |-> conversation_id, title |-> DefaultTitle, messages |-> << >>]

\* get_conversation 39-57: None (here << >>) when there is no file.
get_conversation(store, conversation_id) == store[conversation_id]

\* save_conversation 60-68: the file of the conversation's id is rewritten.
save_conversation(store, saved) ==
    [store EXCEPT ![saved.id] = saved]

\* add_user_message 78-81.
UserMessage(content) == [role |-> "user", content |-> content]

\* add_assistant_message 102-107.
AssistantMessage(stage1, stage2, stage3) ==
    [role |-> "assistant", stage1 |-> stage1, stage2 |-> stage2,
     stage3 |-> stage3]

WithMessage_Replacing(loaded, message) ==
    [loaded EXCEPT !.messages = <<message>>]

\* conversation["messages"].append(message), lines 84 and 110.
WithMessage(loaded, message) ==
    [loaded EXCEPT !.messages = Append(@, message)]

\* add_user_message 71-87 and add_assistant_message 90-113: the files
\* after the call, which loads the conversation, appends and saves.
add_message(store, conversation_id, message) ==
    LET loaded == get_conversation(store, conversation_id)
    IN  IF loaded = << >>
        THEN store
        ELSE save_conversation(store, WithMessage(loaded, message))

update_conversation_title_Upsert(store, conversation_id, title) ==
    LET loaded == get_conversation(store, conversation_id)
    IN  IF loaded = << >>
        THEN save_conversation(store,
                 [NewConversation(conversation_id) EXCEPT !.title = title])
        ELSE save_conversation(store, [loaded EXCEPT !.title = title])

\* update_conversation_title 116-135: the files after the call.
update_conversation_title(store, conversation_id, title) ==
    LET loaded == get_conversation(store, conversation_id)
    IN  IF loaded = << >>
        THEN store
        ELSE save_conversation(store, [loaded EXCEPT !.title = title])

\* What the three calls return: False when get_conversation gave None.
Found(store, conversation_id) ==
    get_conversation(store, conversation_id) # << >>

(***************************************************************************)
(* parse_ranking_from_text (council.py 261-279).  A ranking text is a      *)
(* sequence of tokens: the marker, the number prefixes that \d+\. matches, *)
(* the labels that Response [A-Z] matches, and any other word.  White      *)
(* space separates tokens, so \d+\.\s*Response [A-Z] matches a number      *)
(* token directly followed by a label token.                               *)
(***************************************************************************)
MaxTextLen == 6

MARKER == "FINAL RANKING:"

NumberTokens == {"1.", "2."}

\* What Response [A-Z] matches.
ResponseTokens == {ResponseLabel(letter) : letter \in UppercaseLetters}

\* The labels that the ranking texts explored by SpecParse are written with.
TextLabels == {"Response A", "Response B"}

Tokens == {MARKER, "word"} \cup NumberTokens \cup TextLabels

RankingTexts == UNION {[1..n -> Tokens] : n \in 0..MaxTextLen}

\* "FINAL RANKING:" in ranking_text
HasMarker(text) == \E i \in 1..Len(text) : text[i] = MARKER

FirstMarker(text) ==
    CHOOSE i \in 1..Len(text) :
        text[i] = MARKER /\ \A j \in 1..(i - 1) : text[j] # MARKER

\* ranking_text.split("FINAL RANKING:")
RECURSIVE Split(_)
Split(text) ==
    IF HasMarker(text)
    THEN << SubSeq(text, 1, FirstMarker(text) - 1) >>
            \o Split(SubSeq(text, FirstMarker(text) + 1, Len(text)))
    ELSE << text >>

\* ranking_section = parts[1] (Python counts the parts from 0)
RankingSection(parts) == parts[2]

\* re.findall(r'\d+\.\s*Response [A-Z]', section): the matches left to
\* right, none overlapping another.
RECURSIVE FindNumbered(_)
FindNumbered(section) ==
    IF Len(section) < 2 THEN << >>
    ELSE IF section[1] \in NumberTokens /\ section[2] \in ResponseTokens
         THEN << << section[1], section[2] >> >>
                 \o FindNumbered(SubSeq(section, 3, Len(section)))
         ELSE FindNumbered(Tail(section))

\* re.search(r'Response [A-Z]', m).group() for each numbered match m
LabelsOfNumbered(matches) == [i \in 1..Len(matches) |-> matches[i][2]]

\* re.findall(r'Response [A-Z]', text)
FindResponses(text) == SelectSeq(text, LAMBDA t : t \in ResponseTokens)

\* Lines 278-279: what is returned for a text without the marker.
UnmarkedRanking_NumberedFirst(text) ==
    IF FindNumbered(text) # << >>
    THEN LabelsOfNumbered(FindNumbered(text))
    ELSE FindResponses(text)

UnmarkedRanking(text) == FindResponses(text)

parse_ranking_from_text(text) ==
    IF HasMarker(text) /\ Len(Split(text)) >= 2
    THEN LET ranking_section  == RankingSection(Split(text))
             numbered_matches == FindNumbered(ranking_section)
         IN  IF numbered_matches # << >>
             THEN LabelsOfNumbered(numbered_matches)
             ELSE FindResponses(ranking_section)
    ELSE UnmarkedRanking(text)

\* stage2_collect_rankings 163-175: one entry for each response that came,
\* with its text (replies gives the text of each response) and the ranking
\* parsed from it.
Stage2Results(status, replies) ==
    [i \in 1..Len(Succeeded(status)) |->
        [model |-> Succeeded(status)[i],
         ranking |-> replies[Succeeded(status)[i]],
         parsed_ranking |->
             parse_ranking_from_text(replies[Succeeded(status)[i]])]]

(***************************************************************************)
(* calculate_aggregate_rankings (council.py 282-313).  model_positions is  *)
(* a defaultdict(list): a sequence of entries here, in the order in which  *)
(* the keys were inserted.  An average_rank is held in hundredths (1.5 is  *)
(* 150), which is all that round(avg_rank, 2) keeps.                       *)
(***************************************************************************)
\* model_positions[model_name].append(position)
RecordPosition_Overwrite(model_positions, model_name, position) ==
    IF \E i \in 1..Len(model_positions) : model_positions[i].model = model_name
    THEN [i \in 1..Len(model_positions) |->
            IF model_positions[i].model = model_name
            THEN [model_positions[i] EXCEPT !.positions = << position >>]
            ELSE model_positions[i]]
    ELSE Append(model_positions,
                [model |-> model_name, positions |-> << position >>])

RecordPosition(model_positions, model_name, position) ==
    IF \E i \in 1..Len(model_positions) : model_positions[i].model = model_name
    THEN [i \in 1..Len(model_positions) |->
            IF model_positions[i].model = model_name
            THEN [model_positions[i] EXCEPT !.positions = Append(@, position)]
            ELSE model_positions[i]]
    ELSE Append(model_positions,
                [model |-> model_name, positions |-> << position >>])

\* for position, label in enumerate(parsed_ranking, start=1):
\*     if label in label_to_model: ...
RECURSIVE RecordRanking(_, _, _, _)
RecordRanking(model_positions, parsed, position, registry) ==
    IF position > Len(parsed) THEN model_positions
    ELSE RecordRanking(
            IF parsed[position] \in DOMAIN registry
            THEN RecordPosition(model_positions, registry[parsed[position]],
                                position)
            ELSE model_positions,
            parsed, position + 1, registry)

\* for ranking in stage2_results: the text is parsed again and walked.
RECURSIVE ModelPositions(_, _, _)
ModelPositions(model_positions, results, registry) ==
    IF results = << >> THEN model_positions
    ELSE ModelPositions(
            RecordRanking(model_positions,
                          parse_ranking_from_text(Head(results).ranking),
                          1, registry),
            Tail(results), registry)

RECURSIVE Sum(_)
Sum(positions) ==
    IF positions = << >> THEN 0 ELSE Head(positions) + Sum(Tail(positions))

\* round(sum(positions) / len(positions), 2), in hundredths.  A quotient
\* that lies exactly half way between two hundredths is an exact binary
\* fraction, and round takes it to the even neighbour.
Round2(total, count) ==
    LET q == (100 * total) \div count
        r == (100 * total) % count
    IN  IF 2 * r < count THEN q
        ELSE IF 2 * r > count THEN q + 1
        ELSE IF q % 2 = 0 THEN q ELSE q + 1

\* "if positions:"
HasPositions_Twice(positions) == Len(positions) > 1

HasPositions(positions) == Len(positions) > 0

\* The list named aggregate before it is sorted.
AggregateEntries(model_positions) ==
    LET kept == SelectSeq(model_positions,
                          LAMBDA e : HasPositions(e.positions))
    IN  [i \in 1..Len(kept) |->
            [model |-> kept[i].model,
             average_rank |-> Round2(Sum(kept[i].positions),
                                     Len(kept[i].positions)),
             rankings_count |-> Len(kept[i].positions)]]

\* list.sort(key=...) is stable: an entry stays behind every earlier entry
\* whose key is not greater than its own.
StaysBehind_Strict(earlier, entry) == earlier.average_rank < entry.average_rank

StaysBehind(earlier, entry) == earlier.average_rank <= entry.average_rank

\* entry takes its place in a list that is already sorted.
RECURSIVE Insert(_, _)
Insert(sorted, entry) ==
    IF sorted = << >> THEN << entry >>
    ELSE IF StaysBehind(sorted[Len(sorted)], entry) THEN Append(sorted, entry)
    ELSE Append(Insert(SubSeq(sorted, 1, Len(sorted) - 1), entry),
                sorted[Len(sorted)])

\* aggregate.sort(key=lambda x: x['average_rank'])
SortByAverageRank_InsertionOrder(aggregate) == aggregate

RECURSIVE SortByAverageRank(_)
SortByAverageRank(aggregate) ==
    IF aggregate = << >> THEN << >>
    ELSE Insert(SortByAverageRank(SubSeq(aggregate, 1, Len(aggregate) - 1)),
                aggregate[Len(aggregate)])

calculate_aggregate_rankings_WorstForUnmentioned(results, registry) ==
    LET ranked == SortByAverageRank(
                      AggregateEntries(ModelPositions(<< >>, results, registry)))
        unmentioned ==
            SelectSeq(COUNCIL_MODELS,
                      LAMBDA m : /\ \E l \in DOMAIN registry : registry[l] = m
                                 /\ \A i \in 1..Len(ranked) : ranked[i].model # m)
    IN  ranked \o [i \in 1..Len(unmentioned) |->
                     [model |-> unmentioned[i],
                      average_rank |-> 100 * Cardinality(DOMAIN registry),
                      rankings_count |-> 0]]

calculate_aggregate_rankings(results, registry) ==
    SortByAverageRank(AggregateEntries(ModelPositions(<< >>, results, registry)))

(***************************************************************************)
(* The run.                                                                *)
(***************************************************************************)
\* The conversations a request may arrive on: a new one, and one that holds
\* a completed turn.
StoredConversations == { << >>, << "user", "assistant" >> }

\* is_first_message = len(conversation["messages"]) == 0
IsFirstMessage == Len(conversation) = 0

\* previous_messages = conversation["messages"][:-1]
PreviousMessages == SubSeq(conversation, 1, Len(conversation) - 1)

\* run_full_council 361-365 and 397: conversation_history is not None.
HadContext == PreviousMessages # << >>

\* The texts a judge may answer with: one without any label, and a ranking.
RankingReplies ==
    { << "word" >>,
      << MARKER, "1.", "Response B", "2.", "Response A" >> }

\* The texts of the responses that a fan-out with these outcomes returned.
RepliesOf(status) ==
    [{m \in DOMAIN status : status[m] = "ok"} -> RankingReplies]

\* query_model has not been called.
NoQueries ==
    [stage1 |-> [m \in Models |-> 0], stage2 |-> [m \in Models |-> 0],
     stage3 |-> 0]

\* No request is being followed.
RequestIdle ==
    /\ conversation = << >>
    /\ title_task = "none"
    /\ aggregate_rankings = << >>
    /\ previous_messages = << >>
    /\ queries = NoQueries

\* The conversation_id of the request.
RequestedId == "c1"

\* request.content
NewContent == "again"

\* What generate_conversation_title returned.
GeneratedTitle == "Generated Title"

\* A message stored by an earlier turn.
StoredMessage(role) ==
    IF role = "user"
    THEN UserMessage("hello")
    ELSE AssistantMessage(<< >>, << >>, SynthesisResult(TRUE))

\* The titles the conversation may have when the request arrives: an
\* earlier turn stored a title unless its title update failed.
StoredTitles ==
    IF IsFirstMessage THEN {DefaultTitle} ELSE {DefaultTitle, "Earlier Title"}

\* The file of the conversation when the request arrives.
StoredFile(title) ==
    [id |-> RequestedId, title |-> title,
     messages |-> [i \in 1..Len(conversation) |->
                      StoredMessage(conversation[i])]]

\* storage.add_user_message(conversation_id, request.content): send_message
\* 146, event_generator 203.
StoreUserMessage ==
    /\ files' = add_message(files, RequestedId, UserMessage(NewContent))
    /\ ret' = Found(files, RequestedId)
    /\ log' = Append(log, [op |-> "add_user_message", id |-> RequestedId,
                           arg |-> UserMessage(NewContent)])

\* storage.update_conversation_title(conversation_id, title): send_message
\* 151 and 180.
StoreTitle ==
    /\ files' = update_conversation_title(files, RequestedId, GeneratedTitle)
    /\ ret' = Found(files, RequestedId)
    /\ log' = Append(log, [op |-> "update_conversation_title",
                           id |-> RequestedId, arg |-> GeneratedTitle])

Init ==
    /\ mode \in {"batch", "stream"}
    /\ max_concurrent \in ConcurrencyCaps
    /\ pc = "idle"
    /\ status1 = NotStarted(Models)
    /\ status2 = NotStarted(Models)
    /\ status3 = "idle"
    /\ arrival = << >>
    /\ stage1_results = << >>
    /\ stage2_results = << >>
    /\ labels = << >>
    /\ label_to_model = << >>
    /\ stage3_result = << >>
    /\ result = << >>
    /\ events = << >>
    /\ ParserIdle
    /\ conversation \in StoredConversations
    /\ title_task = "none"
    /\ aggregate_rankings = << >>
    /\ previous_messages = << >>
    /\ queries = NoQueries
    /\ ContextIdle
    /\ \E title \in StoredTitles :
          files = [NoFiles EXCEPT ![RequestedId] = StoredFile(title)]
    /\ requests = NoRequests
    /\ ret = FALSE
    /\ log = << >>

\* send_message 146-151: the user message is stored; on a first message the
\* title is generated, and awaited, before run_full_council is called.
BatchTitleStart ==
    /\ mode = "batch" /\ pc = "idle" /\ IsFirstMessage
    /\ StoreUserMessage
    /\ title_task' = "running"
    /\ pc' = "title"
    /\ UNCHANGED parser_vars
    /\ UNCHANGED requests
    /\ UNCHANGED context_vars
    /\ UNCHANGED <<conversation, aggregate_rankings, previous_messages,
                   queries>>
    /\ UNCHANGED <<mode, max_concurrent, status1, status2, status3, arrival,
                   stage1_results, stage2_results, labels, label_to_model,
                   stage3_result, result, events>>

\* generate_conversation_title returns: a title, or its fallback when the
\* invocation failed.
TitleFinish ==
    /\ title_task = "running"
    /\ title_task' = "done"
    /\ UNCHANGED parser_vars
    /\ UNCHANGED requests
    /\ UNCHANGED context_vars
    /\ UNCHANGED storage_vars
    /\ UNCHANGED <<conversation, aggregate_rankings, previous_messages,
                   queries>>
    /\ UNCHANGED run_vars

\* send_message 146-160: the user message is stored or, on a first
\* message, the title that has come; run_full_council is entered with the
\* previous messages and calls stage1_collect_responses.
BatchStart ==
    /\ mode = "batch"
    /\ \/ pc = "idle" /\ ~IsFirstMessage /\ StoreUserMessage
       \/ pc = "title" /\ title_task = "done" /\ StoreTitle
    /\ previous_messages' = PreviousMessages
    /\ conversation_history' = ConversationHistory(previous_messages')
    /\ prompts' = [prompts EXCEPT !.stage1 = Prompt(conversation_history')]
    /\ status1' = FanOut(Models)
    /\ pc' = "stage1"
    /\ UNCHANGED parser_vars
    /\ UNCHANGED requests
    /\ UNCHANGED <<conversation, title_task, aggregate_rankings, queries>>
    /\ UNCHANGED <<mode, max_concurrent, status2, status3, arrival,
                   stage1_results, stage2_results, labels, label_to_model,
                   stage3_result, result, events>>

\* event_generator runs up to its first await: the user message is stored,
\* the title task is created on a first message, stage 1 is called.
StreamStart ==
    /\ mode = "stream" /\ pc = "idle"
    /\ StoreUserMessage
    /\ previous_messages' = PreviousMessages
    /\ conversation_history' = ConversationHistory(previous_messages')
    /\ prompts' = [prompts EXCEPT !.stage1 = Prompt(conversation_history')]
    /\ title_task' = IF IsFirstMessage THEN "running" ELSE "none"
    /\ events' = Append(events, "stage1_start")
    /\ status1' = FanOut(Models)
    /\ pc' = "stage1"
    /\ UNCHANGED parser_vars
    /\ UNCHANGED requests
    /\ UNCHANGED <<conversation, aggregate_rankings, queries>>
    /\ UNCHANGED <<mode, max_concurrent, status2, status3, arrival,
                   stage1_results, stage2_results, labels, label_to_model,
                   stage3_result, result>>

\* event_generator 203 and 264-266: storage.add_user_message raises, and
\* the handler yields the error event.
StreamStartFails ==
    /\ mode = "stream" /\ pc = "idle"
    /\ events' = Append(events, "error")
    /\ pc' = "done"
    /\ UNCHANGED parser_vars
    /\ UNCHANGED requests
    /\ UNCHANGED context_vars
    /\ UNCHANGED storage_vars
    /\ UNCHANGED request_vars
    /\ UNCHANGED <<mode, max_concurrent, status1, status2, status3, arrival,
                   stage1_results, stage2_results, labels, label_to_model,
                   stage3_result, result>>

Admit1(m) ==
    /\ pc = "stage1" /\ status1[m] = "queued" /\ SlotFree(status1)
    /\ status1' = Admitted(status1, m)
    /\ queries' = [queries EXCEPT !.stage1[m] = @ + 1]
    /\ UNCHANGED parser_vars
    /\ UNCHANGED requests
    /\ UNCHANGED context_vars
    /\ UNCHANGED storage_vars
    /\ UNCHANGED <<conversation, title_task, aggregate_rankings,
                   previous_messages>>
    /\ UNCHANGED <<mode, max_concurrent, pc, status2, status3, arrival,
                   stage1_results, stage2_results, labels, label_to_model,
                   stage3_result, result, events>>

Finish1(m, ok) ==
    /\ pc = "stage1" /\ status1[m] = "running"
    /\ status1' = Finished(status1, m, ok)
    /\ arrival' = Append(ArrivalOf(status1), m)
    /\ UNCHANGED parser_vars
    /\ UNCHANGED requests
    /\ UNCHANGED context_vars
    /\ UNCHANGED storage_vars
    /\ UNCHANGED request_vars
    /\ UNCHANGED <<mode, max_concurrent, pc, status2, status3,
                   stage1_results, stage2_results, labels, label_to_model,
                   stage3_result, result, events>>

\* run_full_council 370-375: nothing succeeded, the error tuple is returned.
BatchStage1Empty ==
    /\ mode = "batch" /\ pc = "stage1" /\ GatherDone(status1)
    /\ NoModelsResponded(Stage1Results(status1))
    /\ stage1_results' = Stage1Results(status1)
    /\ result' = ErrorResult
    /\ pc' = "done"
    /\ UNCHANGED parser_vars
    /\ UNCHANGED requests
    /\ UNCHANGED context_vars
    /\ UNCHANGED storage_vars
    /\ UNCHANGED request_vars
    /\ UNCHANGED <<mode, max_concurrent, status1, status2, status3, arrival,
                   stage2_results, labels, label_to_model, stage3_result,
                   events>>

Stage2Council_Stage1Successes == {m \in Models : status1[m] = "ok"}

\* stage2_collect_rankings 161: the ranking prompt goes to COUNCIL_MODELS.
Stage2Council == Models

\* stage2_collect_rankings up to its await: labels, mapping, fan-out.
EnterStage2 ==
    /\ stage1_results' = Stage1Results(status1)
    /\ labels' = Labels(Len(stage1_results'))
    /\ label_to_model' = LabelToModel(labels', stage1_results')
    /\ status2' = FanOut(Stage2Council)
    /\ prompts' = [prompts EXCEPT !.stage2 = Prompt(conversation_history)]
    /\ pc' = "stage2"
    /\ UNCHANGED parser_vars
    /\ UNCHANGED requests
    /\ UNCHANGED conversation_history
    /\ UNCHANGED storage_vars
    /\ UNCHANGED request_vars
    /\ UNCHANGED <<mode, max_concurrent, status1, status3, arrival,
                   stage2_results, stage3_result, result>>

BatchStage2Start ==
    /\ mode = "batch" /\ pc = "stage1" /\ GatherDone(status1)
    /\ ~NoModelsResponded(Stage1Results(status1))
    /\ EnterStage2
    /\ UNCHANGED events

\* event_generator 222-230: no test of stage1_results.
StreamStage2Start ==
    /\ mode = "stream" /\ pc = "stage1" /\ GatherDone(status1)
    /\ EnterStage2
    /\ events' = events \o << "stage1_complete", "stage2_start" >>

Admit2(m) ==
    /\ pc = "stage2" /\ status2[m] = "queued" /\ SlotFree(status2)
    /\ status2' = Admitted(status2, m)
    /\ queries' = [queries EXCEPT !.stage2[m] = @ + 1]
    /\ UNCHANGED parser_vars
    /\ UNCHANGED requests
    /\ UNCHANGED context_vars
    /\ UNCHANGED storage_vars
    /\ UNCHANGED <<conversation, title_task, aggregate_rankings,
                   previous_messages>>
    /\ UNCHANGED <<mode, max_concurrent, pc, status1, status3, arrival,
                   stage1_results, stage2_results, labels, label_to_model,
                   stage3_result, result, events>>

Finish2(m, ok) ==
    /\ pc = "stage2" /\ status2[m] = "running"
    /\ status2' = Finished(status2, m, ok)
    /\ arrival' = Append(ArrivalOf(status2), m)
    /\ UNCHANGED parser_vars
    /\ UNCHANGED requests
    /\ UNCHANGED context_vars
    /\ UNCHANGED storage_vars
    /\ UNCHANGED request_vars
    /\ UNCHANGED <<mode, max_concurrent, pc, status1, status3,
                   stage1_results, stage2_results, labels, label_to_model,
                   stage3_result, result, events>>

\* The stage-2 results are collected from the responses, whose texts are
\* read here for the first time; the aggregate is calculated
\* (run_full_council 383, event_generator 231) and stage3_synthesize_final
\* calls the chairman.
Stage3Start(replies) ==
    /\ pc = "stage2" /\ GatherDone(status2)
    /\ stage2_results' = Stage2Results(status2, replies)
    /\ aggregate_rankings' =
          calculate_aggregate_rankings(stage2_results', label_to_model)
    /\ status3' = "running"
    /\ queries' = [queries EXCEPT !.stage3 = @ + 1]
    /\ prompts' = [prompts EXCEPT !.stage3 = Prompt(conversation_history)]
    /\ pc' = "stage3"
    /\ events' = IF mode = "stream"
                 THEN events \o << "stage2_complete", "stage3_start" >>
                 ELSE events
    /\ UNCHANGED parser_vars
    /\ UNCHANGED requests
    /\ UNCHANGED conversation_history
    /\ UNCHANGED storage_vars
    /\ UNCHANGED <<conversation, title_task, previous_messages>>
    /\ UNCHANGED <<mode, max_concurrent, status1, status2, arrival,
                   stage1_results, labels, label_to_model, stage3_result,
                   result>>

\* run_full_council 394-398.
Metadata ==
    [label_to_model |-> label_to_model,
     aggregate_rankings |-> aggregate_rankings,
     had_context |-> HadContext]

\* The chairman call returns (a response or None): run_full_council returns
\* its tuple, the stream goes on to its closing steps.
Stage3Finish(ok) ==
    /\ pc = "stage3" /\ status3 = "running"
    /\ status3' = IF ok THEN "ok" ELSE "fail"
    /\ stage3_result' = SynthesisResult(ok)
    /\ result' = IF mode = "batch"
                 THEN [stage1 |-> stage1_results, stage2 |-> stage2_results,
                       stage3 |-> SynthesisResult(ok),
                       metadata |-> Metadata]
                 ELSE result
    /\ events' = IF mode = "stream"
                 THEN Append(events, "stage3_complete")
                 ELSE events
    /\ arrival' = << >>
    /\ pc' = IF mode = "batch" THEN "done" ELSE "closing"
    /\ UNCHANGED parser_vars
    /\ UNCHANGED requests
    /\ UNCHANGED context_vars
    /\ UNCHANGED storage_vars
    /\ UNCHANGED request_vars
    /\ UNCHANGED <<mode, max_concurrent, status1, status2,
                   stage1_results, stage2_results, labels, label_to_model>>

\* What event_generator 245-266 yields after stage3_complete: title_complete
\* when there is a title task and its title was stored (a failure there is
\* swallowed), then complete when the assistant message was stored, or
\* error from the handler when storage raised.
ClosingEvents_CompleteBeforeSave(titled, saved) ==
    (IF title_task = "done" /\ titled THEN << "title_complete" >> ELSE << >>)
        \o (IF saved THEN << "complete" >> ELSE << "complete", "error" >>)

ClosingEvents_TitleAfterComplete(titled, saved) ==
    << IF saved THEN "complete" ELSE "error" >>
        \o (IF title_task = "done" /\ titled
            THEN << "title_complete" >> ELSE << >>)

ClosingEvents(titled, saved) ==
    (IF title_task = "done" /\ titled THEN << "title_complete" >> ELSE << >>)
        \o << IF saved THEN "complete" ELSE "error" >>

\* event_generator 245-266: the title task, if there is one, is awaited, the
\* title and the assistant message are stored and the stream ends.
StreamFinish(titled, saved) ==
    LET title_calls ==
            IF title_task = "done" /\ titled
            THEN << [op |-> "update_conversation_title", id |-> RequestedId,
                     arg |-> GeneratedTitle] >>
            ELSE << >>
        after_title ==
            IF title_task = "done" /\ titled
            THEN update_conversation_title(files, RequestedId, GeneratedTitle)
            ELSE files
        message ==
            AssistantMessage(stage1_results, stage2_results, stage3_result)
        message_calls ==
            IF saved
            THEN << [op |-> "add_assistant_message", id |-> RequestedId,
                     arg |-> message] >>
            ELSE << >>
    IN  /\ mode = "stream" /\ pc = "closing" /\ title_task # "running"
        /\ files' = IF saved
                     THEN add_message(after_title, RequestedId, message)
                     ELSE after_title
        /\ log' = log \o title_calls \o message_calls
        /\ ret' = IF title_calls \o message_calls = << >>
                   THEN ret
                   ELSE Found(files, RequestedId)
        /\ events' = events \o ClosingEvents(titled, saved)
        /\ pc' = "done"
        /\ UNCHANGED parser_vars
        /\ UNCHANGED requests
        /\ UNCHANGED context_vars
        /\ UNCHANGED request_vars
        /\ UNCHANGED <<mode, max_concurrent, status1, status2, status3,
                       arrival, stage1_results, stage2_results, labels,
                       label_to_model, stage3_result, result>>

\* send_message 171-178: a conversation that has messages and still the
\* default title is given a title from the user messages among its last
\* three.  The title read is the one loaded when the request arrived,
\* which no step of a request that is not the first has changed.
NeedsTitle ==
    /\ ~IsFirstMessage
    /\ files[RequestedId].title = DefaultTitle
    /\ \E i \in 1..Len(conversation) :
          i > Len(conversation) - 3 /\ conversation[i] = "user"

\* storage.add_assistant_message has been called by the request.
AssistantStored ==
    \E i \in 1..Len(log) : log[i].op = "add_assistant_message"

\* send_message 163-178: run_full_council has returned, the assistant
\* message is stored, and the title is generated if it is still missing.
\* pc stays at "done", which says that run_full_council has returned;
\* where send_message is after that shows in log and title_task.
BatchSave ==
    LET message == AssistantMessage(result.stage1, result.stage2,
                                    result.stage3)
    IN  /\ mode = "batch" /\ pc = "done" /\ ~AssistantStored
        /\ files' = add_message(files, RequestedId, message)
        /\ ret' = Found(files, RequestedId)
        /\ log' = Append(log, [op |-> "add_assistant_message",
                               id |-> RequestedId, arg |-> message])
        /\ title_task' = IF NeedsTitle THEN "running" ELSE title_task
        /\ UNCHANGED parser_vars
        /\ UNCHANGED context_vars
        /\ UNCHANGED requests
        /\ UNCHANGED <<conversation, aggregate_rankings, previous_messages,
                       queries>>
        /\ UNCHANGED run_vars

\* send_message 179-189: the title has come and is stored (the stored title
\* is then no longer the default one); the response is returned.
BatchRetitle ==
    /\ mode = "batch" /\ pc = "done" /\ AssistantStored
    /\ NeedsTitle /\ title_task = "done"
    /\ StoreTitle
    /\ UNCHANGED parser_vars
    /\ UNCHANGED context_vars
    /\ UNCHANGED requests
    /\ UNCHANGED request_vars
    /\ UNCHANGED run_vars

Next ==
    \/ BatchTitleStart
    \/ TitleFinish
    \/ BatchStart
    \/ StreamStart
    \/ StreamStartFails
    \/ \E m \in Models : Admit1(m)
    \/ \E m \in Models, ok \in BOOLEAN : Finish1(m, ok)
    \/ BatchStage1Empty
    \/ BatchStage2Start
    \/ StreamStage2Start
    \/ \E m \in Models : Admit2(m)
    \/ \E m \in Models, ok \in BOOLEAN : Finish2(m, ok)
    \/ \E replies \in RepliesOf(status2) : Stage3Start(replies)
    \/ \E ok \in BOOLEAN : Stage3Finish(ok)
    \/ \E titled \in BOOLEAN, saved \in BOOLEAN : StreamFinish(titled, saved)
    \/ BatchSave
    \/ BatchRetitle

Spec == Init /\ [][Next]_vars

(***************************************************************************)
(* The batch request on a new conversation, under fairness: a model        *)
(* invocation ends (query_model returns within its timeout), the event     *)
(* loop resumes a task that can enter the semaphore, and a coroutine whose *)
(* await has completed goes on.  Some step is taken while one is possible. *)
(***************************************************************************)
InitFair ==
    /\ Init
    /\ mode = "batch"
    /\ conversation = << >>

NextFair ==
    \/ BatchTitleStart
    \/ TitleFinish
    \/ BatchStart
    \/ \E m \in Models : Admit1(m)
    \/ \E m \in Models, ok \in BOOLEAN : Finish1(m, ok)
    \/ BatchStage1Empty
    \/ BatchStage2Start
    \/ \E m \in Models : Admit2(m)
    \/ \E m \in Models, ok \in BOOLEAN : Finish2(m, ok)
    \/ \E replies \in RepliesOf(status2) : Stage3Start(replies)
    \/ \E ok \in BOOLEAN : Stage3Finish(ok)
    \/ BatchSave

SpecFair == InitFair /\ [][NextFair]_vars /\ WF_vars(NextFair)

(***************************************************************************)
(* Label assignment for councils of any size: the comprehension of         *)
(* stage2_collect_rankings taken one element at a time, for a council of   *)
(* n members that all answered in stage 1.                                 *)
(***************************************************************************)
MaxAnswers == 27

AnswersOf(n) == [i \in 1..n |-> [model |-> i, response |-> "answer"]]

InitLabels ==
    /\ mode = "batch"
    /\ max_concurrent = DEFAULT_MAX_CONCURRENT
    /\ pc = "labels"
    /\ \E n \in 1..MaxAnswers :
          /\ stage1_results = AnswersOf(n)
          /\ status1 = [m \in 1..n |-> "ok"]
          /\ status2 = NotStarted(1..n)
    /\ status3 = "idle"
    /\ arrival = << >>
    /\ stage2_results = << >>
    /\ labels = << >>
    /\ label_to_model = << >>
    /\ stage3_result = << >>
    /\ result = << >>
    /\ events = << >>
    /\ ParserIdle
    /\ RequestIdle
    /\ ContextIdle
    /\ StorageIdle

\* One element of labels = [chr(65 + i) for i in range(len(stage1_results))].
LabelStep ==
    /\ pc = "labels" /\ Len(labels) < Len(stage1_results)
    /\ labels' = Append(labels, LabelAt(Len(labels)))
    /\ UNCHANGED parser_vars
    /\ UNCHANGED requests
    /\ UNCHANGED context_vars
    /\ UNCHANGED storage_vars
    /\ UNCHANGED request_vars
    /\ UNCHANGED <<mode, max_concurrent, pc, status1, status2, status3,
                   arrival, stage1_results, stage2_results, label_to_model,
                   stage3_result, result, events>>

\* The mapping is built and the ranking prompt goes out to the council.
RankingFanOut ==
    /\ pc = "labels" /\ Len(labels) = Len(stage1_results)
    /\ label_to_model' = LabelToModel(labels, stage1_results)
    /\ status2' = FanOut(DOMAIN status2)
    /\ pc' = "stage2"
    /\ UNCHANGED parser_vars
    /\ UNCHANGED requests
    /\ UNCHANGED context_vars
    /\ UNCHANGED storage_vars
    /\ UNCHANGED request_vars
    /\ UNCHANGED <<mode, max_concurrent, status1, status3, arrival,
                   stage1_results, stage2_results, labels, stage3_result,
                   result, events>>

NextLabels == LabelStep \/ RankingFanOut

SpecLabels == InitLabels /\ [][NextLabels]_vars

RunIdle ==
    /\ mode = "batch"
    /\ max_concurrent = DEFAULT_MAX_CONCURRENT
    /\ pc = "idle"
    /\ status1 = NotStarted(Models)
    /\ status2 = NotStarted(Models)
    /\ status3 = "idle"
    /\ arrival = << >>
    /\ stage1_results = << >>
    /\ stage2_results = << >>
    /\ labels = << >>
    /\ label_to_model = << >>
    /\ stage3_result = << >>
    /\ result = << >>
    /\ events = << >>

\* parse_ranking_from_text is called with some judge's text.
InitParse ==
    /\ RunIdle
    /\ RequestIdle
    /\ ContextIdle
    /\ StorageIdle
    /\ ranking_text \in RankingTexts
    /\ parsed_ranking = << >>
    /\ parse_pc = "called"

ParseRanking ==
    /\ parse_pc = "called"
    /\ parsed_ranking' = parse_ranking_from_text(ranking_text)
    /\ parse_pc' = "returned"
    /\ UNCHANGED ranking_text
    /\ UNCHANGED run_vars
    /\ UNCHANGED requests
    /\ UNCHANGED context_vars
    /\ UNCHANGED storage_vars
    /\ UNCHANGED request_vars

NextParse == ParseRanking

SpecParse == InitParse /\ [][NextParse]_vars

(***************************************************************************)
(* calculate_aggregate_rankings called on its own: the stage-2 results of  *)
(* up to MaxJudges judges and the registry of the call are drawn in the    *)
(* initial state.  A judge's text is a sequence of mentions, at most as    *)
(* many as there are labels to write; the registry holds every one of      *)
(* these labels, or every one but the last.                                *)
(***************************************************************************)
MaxJudges == 2

JudgeLabels == {"Response A", "Response B", "Response C"}

JudgeTexts == UNION {[1..k -> JudgeLabels] : k \in 0..Cardinality(JudgeLabels)}

RegistrySizes == {Cardinality(JudgeLabels) - 1, Cardinality(JudgeLabels)}

\* The stage-1 results when the first n council members answered.
AnsweredBy(n) ==
    [i \in 1..n |-> [model |-> COUNCIL_MODELS[i], response |-> "answer"]]

\* The stage-2 results when the first council members answered with texts.
RankedBy(texts) ==
    [j \in 1..Len(texts) |->
        [model |-> COUNCIL_MODELS[j],
         ranking |-> texts[j],
         parsed_ranking |-> parse_ranking_from_text(texts[j])]]

InitAggregate ==
    /\ mode = "batch"
    /\ max_concurrent = DEFAULT_MAX_CONCURRENT
    /\ pc = "aggregate"
    /\ status1 = NotStarted(Models)
    /\ status2 = NotStarted(Models)
    /\ status3 = "idle"
    /\ arrival = << >>
    /\ \E n \in RegistrySizes :
          /\ stage1_results = AnsweredBy(n)
          /\ labels = Labels(n)
          /\ label_to_model = LabelToModel(Labels(n), AnsweredBy(n))
    /\ \E k \in 0..MaxJudges :
          \E texts \in [1..k -> JudgeTexts] : stage2_results = RankedBy(texts)
    /\ stage3_result = << >>
    /\ result = << >>
    /\ events = << >>
    /\ ParserIdle
    /\ RequestIdle
    /\ ContextIdle
    /\ StorageIdle

\* run_full_council 383: the call and its return value.
Aggregate ==
    /\ pc = "aggregate"
    /\ aggregate_rankings' =
          calculate_aggregate_rankings(stage2_results, label_to_model)
    /\ pc' = "aggregated"
    /\ UNCHANGED parser_vars
    /\ UNCHANGED requests
    /\ UNCHANGED context_vars
    /\ UNCHANGED storage_vars
    /\ UNCHANGED <<conversation, title_task, previous_messages, queries>>
    /\ UNCHANGED <<mode, max_concurrent, status1, status2, status3, arrival,
                   stage1_results, stage2_results, labels, label_to_model,
                   stage3_result, result, events>>

NextAggregate == Aggregate

SpecAggregate == InitAggregate /\ [][NextAggregate]_vars

(***************************************************************************)
(* The storage functions called in any order (as test_storage.py and the   *)
(* endpoints of main.py call them), at most MaxCalls calls.                *)
(***************************************************************************)
MaxCalls == 4

Contents == {"hello", "again"}

Titles == {"Test Conversation Title"}

InitStorage ==
    /\ RunIdle
    /\ ParserIdle
    /\ RequestIdle
    /\ ContextIdle
    /\ StorageIdle

\* create_conversation 21-36.
CreateConversation(conversation_id) ==
    /\ Len(log) < MaxCalls
    /\ files' = save_conversation(files, NewConversation(conversation_id))
    /\ ret' = NewConversation(conversation_id)
    /\ log' = Append(log, [op |-> "create_conversation",
                           id |-> conversation_id, arg |-> << >>])
    /\ UNCHANGED <<run_vars, parser_vars, request_vars, context_vars,
                   requests>>

\* add_user_message 71-87.
AddUserMessage(conversation_id, content) ==
    /\ Len(log) < MaxCalls
    /\ files' = add_message(files, conversation_id, UserMessage(content))
    /\ ret' = Found(files, conversation_id)
    /\ log' = Append(log, [op |-> "add_user_message",
                           id |-> conversation_id,
                           arg |-> UserMessage(content)])
    /\ UNCHANGED <<run_vars, parser_vars, request_vars, context_vars,
                   requests>>

\* add_assistant_message 90-113.
AddAssistantMessage(conversation_id, ok) ==
    LET message == AssistantMessage(<< >>, << >>, SynthesisResult(ok))
    IN  /\ Len(log) < MaxCalls
        /\ files' = add_message(files, conversation_id, message)
        /\ ret' = Found(files, conversation_id)
        /\ log' = Append(log, [op |-> "add_assistant_message",
                               id |-> conversation_id, arg |-> message])
        /\ UNCHANGED <<run_vars, parser_vars, request_vars, context_vars,
                   requests>>

\* update_conversation_title 116-135.
UpdateConversationTitle(conversation_id, title) ==
    /\ Len(log) < MaxCalls
    /\ files' = update_conversation_title(files, conversation_id, title)
    /\ ret' = Found(files, conversation_id)
    /\ log' = Append(log, [op |-> "update_conversation_title",
                           id |-> conversation_id, arg |-> title])
    /\ UNCHANGED <<run_vars, parser_vars, request_vars, context_vars,
                   requests>>

NextStorage ==
    \/ \E id \in ConversationIds : CreateConversation(id)
    \/ \E id \in ConversationIds, content \in Contents :
          AddUserMessage(id, content)
    \/ \E id \in ConversationIds, ok \in BOOLEAN :
          AddAssistantMessage(id, ok)
    \/ \E id \in ConversationIds, title \in Titles :
          UpdateConversationTitle(id, title)

SpecStorage == InitStorage /\ [][NextStorage]_vars

(***************************************************************************)
(* run_full_council called with any list of previous messages: what it     *)
(* does with the context, from the history it formats to the had_context   *)
(* flag of its metadata.                                                   *)
(***************************************************************************)
MaxMessages == 7

ConversationMessages ==
    UNION {[1..n -> MessageKinds] : n \in 0..MaxMessages}

InitContext ==
    /\ RunIdle
    /\ ParserIdle
    /\ conversation = << >>
    /\ title_task = "none"
    /\ aggregate_rankings = << >>
    /\ previous_messages \in ConversationMessages
    /\ queries = NoQueries
    /\ ContextIdle
    /\ StorageIdle

\* run_full_council 361-400, the stages taken as calls that return: the
\* history is formatted, each stage builds its prompt from it, and the
\* metadata say whether there was context.
RunWithContext ==
    /\ pc = "idle"
    /\ conversation_history' = ConversationHistory(previous_messages)
    /\ prompts' = [stage1 |-> Prompt(conversation_history'),
                   stage2 |-> Prompt(conversation_history'),
                   stage3 |-> Prompt(conversation_history')]
    /\ result' = [metadata |->
                     [had_context |-> HadContextFlag(conversation_history')]]
    /\ pc' = "returned"
    /\ UNCHANGED <<parser_vars, request_vars, storage_vars, requests>>
    /\ UNCHANGED <<mode, max_concurrent, status1, status2, status3, arrival,
                   stage1_results, stage2_results, labels, label_to_model,
                   stage3_result, events>>

NextContext == RunWithContext

SpecContext == InitContext /\ [][NextContext]_vars

(***************************************************************************)
(* Two requests on the same conversation, each through send_message or     *)
(* send_message_stream, interleaved at their awaits and yields.  A step is *)
(* the code of one request between two suspension points; the storage      *)
(* functions are synchronous and run inside one step.  The stages of the   *)
(* council are taken as awaits that return.                                *)
(***************************************************************************)
\* request.content of each request.
ContentOf(r) == IF r = "r1" THEN "first question" ELSE "second question"

\* The assistant message of a request whose run returned stage3.
AnswerOf(stage3) == AssistantMessage(<< >>, << >>, stage3)

\* is_first_message, from the conversation the request loaded.
LoadedIsFirst(r) == Len(requests[r].loaded.messages) = 0

\* send_message 171-178, from the conversation the request loaded.
LoadedNeedsTitle(r) ==
    LET messages == requests[r].loaded.messages
    IN  /\ ~LoadedIsFirst(r)
        /\ requests[r].loaded.title = DefaultTitle
        /\ \E i \in 1..Len(messages) :
              i > Len(messages) - 3 /\ messages[i].role = "user"

Appended_ToLoaded(loaded, message) ==
    save_conversation(files, WithMessage(loaded, message))

\* storage.add_user_message / add_assistant_message as a request calls
\* them: the conversation is read again from its file, whatever the
\* request loaded earlier.
Appended(loaded, message) == add_message(files, RequestedId, message)

Called(op, arg) == Append(log, [op |-> op, id |-> RequestedId, arg |-> arg])

At(r, position) == [requests EXCEPT ![r].pc = position]

InitConcurrent ==
    /\ RunIdle
    /\ ParserIdle
    /\ conversation \in StoredConversations
    /\ title_task = "none"
    /\ aggregate_rankings = << >>
    /\ previous_messages = << >>
    /\ queries = NoQueries
    /\ ContextIdle
    /\ \E title \in StoredTitles :
          files = [NoFiles EXCEPT ![RequestedId] = StoredFile(title)]
    /\ requests \in [Requests -> [mode : {"batch", "stream"},
                                  pc : {"waiting"}, loaded : {<< >>}]]
    /\ ret = FALSE
    /\ log = << >>

\* send_message 138-150: the conversation is loaded, the user message is
\* stored, and the request awaits the title or stage 1.
BatchArrive(r) ==
    LET loaded == get_conversation(files, RequestedId)
    IN  /\ requests[r].mode = "batch" /\ requests[r].pc = "waiting"
        /\ files' = Appended(loaded, UserMessage(ContentOf(r)))
        /\ ret' = Found(files, RequestedId)
        /\ log' = Called("add_user_message", UserMessage(ContentOf(r)))
        /\ requests' =
              [requests EXCEPT
                  ![r].loaded = loaded,
                  ![r].pc = IF Len(loaded.messages) = 0
                            THEN "title" ELSE "stage1"]
        /\ UNCHANGED <<run_vars, parser_vars, request_vars, context_vars>>

\* send_message 150-157: the title has come and is stored.
BatchTitled(r) ==
    /\ requests[r].mode = "batch" /\ requests[r].pc = "title"
    /\ files' = update_conversation_title(files, RequestedId, GeneratedTitle)
    /\ ret' = Found(files, RequestedId)
    /\ log' = Called("update_conversation_title", GeneratedTitle)
    /\ requests' = At(r, "stage1")
    /\ UNCHANGED <<run_vars, parser_vars, request_vars, context_vars>>

\* send_message_stream 196-275: the conversation is loaded and the
\* response object returned; event_generator has not run yet.
StreamArrive(r) ==
    /\ requests[r].mode = "stream" /\ requests[r].pc = "waiting"
    /\ requests' =
          [requests EXCEPT ![r].loaded = get_conversation(files, RequestedId),
                           ![r].pc = "arrived"]
    /\ UNCHANGED <<run_vars, parser_vars, request_vars, context_vars,
                   storage_vars>>

\* event_generator 203-217: the user message is stored, up to the first
\* yield.
StreamBegin(r) ==
    /\ requests[r].mode = "stream" /\ requests[r].pc = "arrived"
    /\ files' = Appended(requests[r].loaded, UserMessage(ContentOf(r)))
    /\ ret' = Found(files, RequestedId)
    /\ log' = Called("add_user_message", UserMessage(ContentOf(r)))
    /\ requests' = At(r, "stage1")
    /\ UNCHANGED <<run_vars, parser_vars, request_vars, context_vars>>

\* An await of stage 1 or stage 2 returns (and the stream yields); for the
\* stream, the await of stage 3 as well.
StageReturns(r) ==
    /\ \/ requests[r].pc = "stage1" /\ requests' = At(r, "stage2")
       \/ requests[r].pc = "stage2" /\ requests' = At(r, "stage3")
       \/ /\ requests[r].mode = "stream" /\ requests[r].pc = "stage3"
          /\ requests' = At(r, "closing")
    /\ UNCHANGED <<run_vars, parser_vars, request_vars, context_vars,
                   storage_vars>>

\* send_message 157-180: run_full_council has returned, after stage 3 or
\* with its error after an empty stage 1; the assistant message is stored.
BatchReturn(r, ok) ==
    LET stage3 == IF requests[r].pc = "stage1"
                  THEN ErrorResult.stage3
                  ELSE SynthesisResult(ok)
    IN  /\ requests[r].mode = "batch"
        /\ requests[r].pc \in {"stage1", "stage3"}
        /\ files' = Appended(requests[r].loaded, AnswerOf(stage3))
        /\ ret' = Found(files, RequestedId)
        /\ log' = Called("add_assistant_message", AnswerOf(stage3))
        /\ requests' = At(r, IF LoadedNeedsTitle(r) THEN "retitle" ELSE "done")
        /\ UNCHANGED <<run_vars, parser_vars, request_vars, context_vars>>

\* send_message 179-180: the fallback title has come and is stored.
BatchRetitled(r) ==
    /\ requests[r].mode = "batch" /\ requests[r].pc = "retitle"
    /\ files' = update_conversation_title(files, RequestedId, GeneratedTitle)
    /\ ret' = Found(files, RequestedId)
    /\ log' = Called("update_conversation_title", GeneratedTitle)
    /\ requests' = At(r, "done")
    /\ UNCHANGED <<run_vars, parser_vars, request_vars, context_vars>>

\* event_generator 245-249: the title task of a first message has
\* returned and the title is stored, up to the yield of title_complete.
StreamTitled(r) ==
    /\ requests[r].mode = "stream" /\ requests[r].pc = "closing"
    /\ LoadedIsFirst(r)
    /\ files' = update_conversation_title(files, RequestedId, GeneratedTitle)
    /\ ret' = Found(files, RequestedId)
    /\ log' = Called("update_conversation_title", GeneratedTitle)
    /\ requests' = At(r, "saving")
    /\ UNCHANGED <<run_vars, parser_vars, request_vars, context_vars>>

\* event_generator 254-262: the assistant message is stored and complete
\* is yielded.
StreamSaved(r, ok) ==
    /\ requests[r].mode = "stream"
    /\ \/ requests[r].pc = "saving"
       \/ requests[r].pc = "closing" /\ ~LoadedIsFirst(r)
    /\ files' = Appended(requests[r].loaded, AnswerOf(SynthesisResult(ok)))
    /\ ret' = Found(files, RequestedId)
    /\ log' = Called("add_assistant_message", AnswerOf(SynthesisResult(ok)))
    /\ requests' = At(r, "done")
    /\ UNCHANGED <<run_vars, parser_vars, request_vars, context_vars>>

NextConcurrent ==
    \E r \in Requests :
        \/ BatchArrive(r)
        \/ BatchTitled(r)
        \/ StreamArrive(r)
        \/ StreamBegin(r)
        \/ StageReturns(r)
        \/ \E ok \in BOOLEAN : BatchReturn(r, ok)
        \/ BatchRetitled(r)
        \/ StreamTitled(r)
        \/ \E ok \in BOOLEAN : StreamSaved(r, ok)

SpecConcurrent == InitConcurrent /\ [][NextConcurrent]_vars

(***************************************************************************)
(* Properties of the run.                                                  *)
(***************************************************************************)
ModelsOf(results) == {results[i].model : i \in 1..Len(results)}

\* Every invocation has succeeded or failed.
AllTerminal(status) == \A m \in DOMAIN status : status[m] \in {"ok", "fail"}

OkModels(status) == {m \in DOMAIN status : status[m] = "ok"}

\* The successful models in the configured council order.
OkInCouncilOrder(status) == SelectSeq(COUNCIL_MODELS, LAMBDA m : status[m] = "ok")

\* stage2_collect_rankings has built its labels and mapping.
RegistryBuilt ==
    pc \in {"stage2", "stage3", "closing"} \/ (pc = "done" /\ status3 # "idle")

\* C1: in batch mode, when every stage-1 invocation has failed, no stage-2
\* and no stage-3 invocation is ever issued and the run ends with the error
\* result: empty stage1 and stage2 lists and a stage-3 message tagged "error".
C1_EmptyStage1EndsInError ==
    (mode = "batch" /\ AllTerminal(status1) /\ OkModels(status1) = {}) =>
        /\ Issued(status2) = {}
        /\ status3 = "idle"
        /\ pc \in {"stage1", "done"}
        /\ pc = "done" =>
              /\ result.stage1 = << >>
              /\ result.stage2 = << >>
              /\ result.stage3.model = "error"

C1_Witness ==
    /\ mode = "batch" /\ pc = "done"
    /\ AllTerminal(status1) /\ OkModels(status1) = {}
    /\ result # << >>

\* C2: the stream issues the invocations run_full_council issues and ends
\* as it does: every council member in stage 1; when stage 1 had a success,
\* every council member in stage 2 and the chairman, ending with complete;
\* when stage 1 had no success, no stage-2 and no stage-3 invocation, ending
\* with an error.
C2_StreamSameAsBatch ==
    (mode = "stream" /\ pc = "done") =>
        LET empty == OkModels(status1) = {} IN
        /\ Issued(status1) = Models
        /\ Issued(status2) = IF empty THEN {} ELSE Models
        /\ (status3 = "idle") = empty
        /\ events[Len(events)] = IF empty THEN "error" ELSE "complete"

\* C3: in a fan-out the invocations admitted and not yet terminal are never
\* more than the concurrency cap.
C3_AtMostCapOutstanding ==
    /\ Cardinality(Outstanding(status1)) <= max_concurrent
    /\ Cardinality(Outstanding(status2)) <= max_concurrent

\* The cap is reached while another invocation waits for a slot.
C3_Witness ==
    /\ Cardinality(Outstanding(status2)) = max_concurrent
    /\ \E m \in Models : status2[m] = "queued"
    /\ \E m \in Models : status2[m] \in Terminal

\* C4: no stage-2 invocation exists before every stage-1 invocation is
\* terminal, and the stage-3 invocation does not exist before every stage-2
\* invocation is terminal.
C4_StagesInOrder ==
    /\ Issued(status2) # {} => AllTerminal(status1)
    /\ status3 # "idle" => (Issued(status2) = Models /\ AllTerminal(status2))

C4_Witness ==
    /\ status3 = "running"
    /\ \E m \in Models : status1[m] = "fail"
    /\ \E m \in Models : status2[m] = "fail"

\* C5 (result part): a stage's result list holds exactly the models whose
\* own invocation succeeded.
C5_ResultsAreTheSuccesses ==
    /\ RegistryBuilt => ModelsOf(stage1_results) = OkModels(status1)
    /\ status3 # "idle" => ModelsOf(stage2_results) = OkModels(status2)

\* C5 (step part): a terminal invocation stays as it is, and the step that
\* ends one invocation changes no other invocation.
C5_OwnTerminalState ==
    /\ \A m \in Models :
          /\ status1[m] \in Terminal => status1'[m] = status1[m]
          /\ status2[m] \in Terminal => status2'[m] = status2[m]
    /\ \A m \in Models :
          /\ (status1[m] = "running" /\ status1'[m] # "running") =>
                \A x \in Models \ {m} : status1'[x] = status1[x]
          /\ (status2[m] = "running" /\ status2'[m] # "running") =>
                \A x \in Models \ {m} : status2'[x] = status2[x]

\* C5: every invocation of a fan-out reaches its own terminal state, a
\* failure cancels no sibling, the run goes on after failures, and the stage
\* result holds exactly the models that succeeded.
C5_IndependentInvocations ==
    [] C5_ResultsAreTheSuccesses /\ [][C5_OwnTerminalState]_vars

\* A failure was followed by a sibling's success, in both stages.
C5_Witness ==
    /\ pc = "stage3"
    /\ \E m, x \in Models : status1[m] = "fail" /\ status1[x] = "ok"
    /\ Len(arrival) = Len(COUNCIL_MODELS)
    /\ status2[arrival[1]] = "fail"
    /\ status2[arrival[2]] = "ok"

\* C6: the k-th successful model in council order has the k-th letter,
\* whatever the order in which the stage-1 invocations completed.
C6_LabelsByCouncilOrder ==
    RegistryBuilt =>
        \A k \in 1..Len(OkInCouncilOrder(status1)) :
            /\ ResponseLabel(CharsFrom65[k]) \in DOMAIN label_to_model
            /\ label_to_model[ResponseLabel(CharsFrom65[k])]
                  = OkInCouncilOrder(status1)[k]

\* Labels were assigned after the last council member answered first.
C6_Witness ==
    /\ pc = "stage2" /\ status2 = FanOut(Models)
    /\ Len(arrival) = Len(COUNCIL_MODELS)
    /\ arrival[1] = COUNCIL_MODELS[Len(COUNCIL_MODELS)]
    /\ status1[arrival[1]] = "ok"
    /\ status1[COUNCIL_MODELS[1]] = "ok"
    /\ label_to_model[ResponseLabel("A")] = COUNCIL_MODELS[1]

\* C7: once built, the registry has one label per successful stage-1 answer,
\* no two labels name the same model and every successful model is named.
C7_RegistryIsBijection ==
    RegistryBuilt =>
        /\ Cardinality(DOMAIN label_to_model) = Len(stage1_results)
        /\ Len(stage1_results) = Cardinality(OkModels(status1))
        /\ \A a, b \in DOMAIN label_to_model :
              label_to_model[a] = label_to_model[b] => a = b
        /\ {label_to_model[a] : a \in DOMAIN label_to_model} = OkModels(status1)

C7_Witness ==
    /\ pc = "stage2"
    /\ Cardinality(DOMAIN label_to_model) = 3
    /\ \E m \in Models : status1[m] = "fail"

\* C8: every label is one of A..Z, and with more than 26 stage-1 answers no
\* registry is built and no stage-2 invocation is issued.
C8_LabelSpaceIsCapped ==
    /\ \A i \in 1..Len(labels) : labels[i] \in UppercaseLetters
    /\ Len(stage1_results) > 26 =>
          (label_to_model = << >> /\ Issued(status2) = {})

(***************************************************************************)
(* Properties of the ranking parser.                                       *)
(***************************************************************************)
\* The elements of s at the indices in I, in order.
AtIndices(s, I) ==
    [k \in 1..Cardinality(I) |->
        s[CHOOSE i \in I : Cardinality({j \in I : j <= i}) = k]]

\* The indices of the labels that directly follow a number.
NumberedAt(s) ==
    {i \in 2..Len(s) : s[i] \in ResponseTokens /\ s[i - 1] \in NumberTokens}

MentionedAt(s) == {i \in 1..Len(s) : s[i] \in ResponseTokens}

NumberOf(k) == IF k = 1 THEN "1." ELSE IF k = 2 THEN "2." ELSE "none"

\* s is the lines "1. Response x", "2. Response y", ... and nothing else.
WellFormedLines(s) ==
    /\ Len(s) >= 2 /\ Len(s) % 2 = 0
    /\ \A k \in 1..(Len(s) \div 2) :
          s[2 * k - 1] = NumberOf(k) /\ s[2 * k] \in ResponseTokens

BeforeMarker(text) == SubSeq(text, 1, FirstMarker(text) - 1)

AfterMarker(text) == SubSeq(text, FirstMarker(text) + 1, Len(text))

\* The text after the first marker, up to the next marker if there is one.
MarkedSection(text) ==
    IF HasMarker(AfterMarker(text))
    THEN BeforeMarker(AfterMarker(text))
    ELSE AfterMarker(text)

Range(s) == {s[i] : i \in 1..Len(s)}

\* The index of a marker that well-formed numbered lines follow to the end
\* of the text (0 when there is none).
RankedFrom(text) ==
    IF \E i \in 1..Len(text) :
          text[i] = MARKER /\ WellFormedLines(SubSeq(text, i + 1, Len(text)))
    THEN CHOOSE i \in 1..Len(text) :
          text[i] = MARKER /\ WellFormedLines(SubSeq(text, i + 1, Len(text)))
    ELSE 0

\* C9: for a text that contains the marker followed by well-formed numbered
\* lines, the parser returns the labels of those lines in numbered order,
\* and no label that occurs only before the marker.
C9_MarkedNumberedLines ==
    (parse_pc = "returned" /\ RankedFrom(ranking_text) # 0) =>
        LET at    == RankedFrom(ranking_text)
            lines == SubSeq(ranking_text, at + 1, Len(ranking_text))
        IN  /\ parsed_ranking = [k \in 1..(Len(lines) \div 2) |-> lines[2 * k]]
            /\ \A t \in Range(SubSeq(ranking_text, 1, at - 1)) \ Range(lines) :
                  t \notin Range(parsed_ranking)

\* C9 for the texts in which the marker occurs once: there the section the
\* parser takes is the numbered lines.
C9_SingleMarkerCase ==
    Len(Split(ranking_text)) = 2 => C9_MarkedNumberedLines

\* C10 as stated: in the section (the text after the marker, or the whole
\* text without a marker), when a numbered line matches, the result is the
\* labels of the numbered matches in textual order and no other mention.
C10_NumberedFirstEverywhere ==
    parse_pc = "returned" =>
        LET section == IF HasMarker(ranking_text)
                       THEN AfterMarker(ranking_text)
                       ELSE ranking_text
        IN  NumberedAt(section) # {} =>
                parsed_ranking = AtIndices(section, NumberedAt(section))

\* C10 amended: with the marker, the section is the text between the first
\* marker and the next one (or the end), and when a numbered line matches in
\* it the result is the labels of its numbered matches in textual order and
\* no other mention; without the marker the result is every label mention of
\* the whole text in textual order, numbered or not.
C10_NumberedFirstInMarkedSection ==
    parse_pc = "returned" =>
        IF HasMarker(ranking_text)
        THEN LET section == MarkedSection(ranking_text) IN
             NumberedAt(section) # {} =>
                 parsed_ranking = AtIndices(section, NumberedAt(section))
        ELSE parsed_ranking = AtIndices(ranking_text, MentionedAt(ranking_text))

\* Without a marker a bare mention comes before a numbered line and is kept.
C10_Witness ==
    /\ parse_pc = "returned"
    /\ ~HasMarker(ranking_text)
    /\ NumberedAt(ranking_text) # {}
    /\ MentionedAt(ranking_text) # NumberedAt(ranking_text)
    /\ Len(parsed_ranking) = Cardinality(MentionedAt(ranking_text))

(***************************************************************************)
(* Properties of the aggregate ranking.                                    *)
(***************************************************************************)
\* calculate_aggregate_rankings has returned.
Aggregated == pc = "aggregated"

Judges == 1..Len(stage2_results)

ParsedBy(j) == stage2_results[j].parsed_ranking

LabelsOf(model) == {l \in DOMAIN label_to_model : label_to_model[l] = model}

\* The positions at which judge j mentions the model, in ascending order.
MentionsBy(j, model) ==
    SelectSeq([p \in 1..Len(ParsedBy(j)) |-> p],
              LAMBDA p : ParsedBy(j)[p] \in LabelsOf(model))

JudgesMentioning(model) == {j \in Judges : MentionsBy(j, model) # << >>}

\* The positions of the model over the first j judges.
RECURSIVE MentionsUpTo(_, _)
MentionsUpTo(j, model) ==
    IF j = 0 THEN << >> ELSE MentionsUpTo(j - 1, model) \o MentionsBy(j, model)

\* total / count rounded to the nearest hundredth, in hundredths.
NearestHundredth(total, count) ==
    CHOOSE h \in 0..(100 * total + 1) :
        /\ 2 * (100 * total) - count <= 2 * count * h
        /\ 2 * count * h <= 2 * (100 * total) + count
        /\ (2 * count * h # 2 * (100 * total) - count
              /\ 2 * count * h # 2 * (100 * total) + count) \/ h % 2 = 0

\* C11: every entry's rankings_count is the number of judges whose parsed
\* sequence mentions the model's label, which is never more than the number
\* of judges, and its average_rank is the mean of the model's positions
\* over those judges, rounded to two decimals.
C11_CountIsJudgesMentioning ==
    Aggregated =>
        \A i \in 1..Len(aggregate_rankings) :
            LET e == aggregate_rankings[i] IN
            /\ e.rankings_count = Cardinality(JudgesMentioning(e.model))
            /\ e.rankings_count <= Len(stage2_results)
            /\ e.average_rank =
                  NearestHundredth(
                      Sum(MentionsUpTo(Len(stage2_results), e.model)),
                      Cardinality(JudgesMentioning(e.model)))

\* The scenario of C12: three answers labelled A, B, C; the first judge's
\* ranking parses to C, A, B and the second judge's to A, C.
TwoJudgeScenario ==
    /\ Aggregated
    /\ DOMAIN label_to_model = {"Response A", "Response B", "Response C"}
    /\ Len(stage2_results) = 2
    /\ ParsedBy(1) = << "Response C", "Response A", "Response B" >>
    /\ ParsedBy(2) = << "Response A", "Response C" >>

RankedModels == [i \in 1..Len(aggregate_rankings) |-> aggregate_rankings[i].model]

\* C12 as stated: in the scenario the model behind A comes first, the model
\* behind C second and the model behind B last, with rankings_count 1.
C12_LabelAFirst ==
    TwoJudgeScenario =>
        /\ RankedModels = << label_to_model["Response A"],
                             label_to_model["Response C"],
                             label_to_model["Response B"] >>
        /\ aggregate_rankings[3].rankings_count = 1

\* C12, amended: in the scenario the models behind C and A both have the
\* average 1.5 and the model behind C, observed first, comes first; the
\* model behind A is second and the model behind B is last with average 3
\* and rankings_count 1.
C12_LabelCFirstOnTie ==
    TwoJudgeScenario =>
        /\ RankedModels = << label_to_model["Response C"],
                             label_to_model["Response A"],
                             label_to_model["Response B"] >>
        /\ aggregate_rankings[1].average_rank = 150
        /\ aggregate_rankings[2].average_rank = 150
        /\ aggregate_rankings[3].average_rank = 300
        /\ aggregate_rankings[3].rankings_count = 1

C12_Witness ==
    /\ TwoJudgeScenario
    /\ Len(aggregate_rankings) = 3

\* The model was observed before the other one on the walk through the
\* judges' parsed sequences in judge order.
ObservedBefore(model, other) ==
    LET first(m) == CHOOSE j \in JudgesMentioning(m) :
                        \A k \in JudgesMentioning(m) : j <= k
    IN  \/ first(model) < first(other)
        \/ /\ first(model) = first(other)
           /\ Head(MentionsBy(first(model), model))
                 < Head(MentionsBy(first(other), other))

\* C13: the output is sorted ascending by average_rank, and two models with
\* the same average_rank appear in the order in which they were first
\* observed.
C13_SortedTiesByFirstObserved ==
    Aggregated =>
        \A i, j \in 1..Len(aggregate_rankings) :
            i < j =>
                /\ aggregate_rankings[i].average_rank
                      <= aggregate_rankings[j].average_rank
                /\ aggregate_rankings[i].average_rank
                      = aggregate_rankings[j].average_rank
                   => ObservedBefore(aggregate_rankings[i].model,
                                     aggregate_rankings[j].model)

\* Two models tie behind a model that was observed after both of them.
C13_Witness ==
    /\ Aggregated
    /\ Len(aggregate_rankings) = 3
    /\ aggregate_rankings[2].average_rank = aggregate_rankings[3].average_rank
    /\ aggregate_rankings[1].average_rank < aggregate_rankings[2].average_rank
    /\ ObservedBefore(aggregate_rankings[3].model, aggregate_rankings[1].model)

JudgeOrders(n) ==
    {f \in [1..n -> 1..n] : \A a, b \in 1..n : f[a] = f[b] => a = b}

\* C14: whichever way the list of judge rankings is permuted, the aggregate
\* has the same models, each with the same rounded average_rank and the
\* same rankings_count.
C14_JudgeOrderIndependent ==
    Aggregated =>
        \A f \in JudgeOrders(Len(stage2_results)) :
            Range(calculate_aggregate_rankings(
                      [j \in 1..Len(stage2_results) |-> stage2_results[f[j]]],
                      label_to_model))
                = Range(aggregate_rankings)

\* Two judges place the same model at different positions, and the output
\* lists the models in another order when the judges are exchanged.
C14_Witness ==
    /\ Aggregated
    /\ Len(stage2_results) = 2
    /\ \E m \in Models :
          /\ MentionsBy(1, m) # << >> /\ MentionsBy(2, m) # << >>
          /\ MentionsBy(1, m) # MentionsBy(2, m)
    /\ calculate_aggregate_rankings(
           << stage2_results[2], stage2_results[1] >>, label_to_model)
          # aggregate_rankings

\* C15: a model is in the aggregate ranking exactly when its label is in
\* the registry and occurs in at least one judge's parsed sequence, and it
\* is there once.
C15_RankedIffMentioned ==
    Aggregated =>
        /\ \A m \in Models :
              (m \in Range(RankedModels)) <=>
                  \E l \in DOMAIN label_to_model :
                      /\ label_to_model[l] = m
                      /\ \E j \in Judges : l \in Range(ParsedBy(j))
        /\ Range(RankedModels) \subseteq Models
        /\ Cardinality(Range(RankedModels)) = Len(RankedModels)

\* A registered model that no judge mentions is left out, a label outside
\* the registry is mentioned, and a model mentioned once is ranked.
C15_Witness ==
    /\ Aggregated
    /\ \E l \in DOMAIN label_to_model :
          /\ \A j \in Judges : l \notin Range(ParsedBy(j))
          /\ label_to_model[l] \notin Range(RankedModels)
    /\ \E j \in Judges :
          \E p \in 1..Len(ParsedBy(j)) : ParsedBy(j)[p] \notin DOMAIN label_to_model
    /\ \E i \in 1..Len(aggregate_rankings) :
          aggregate_rankings[i].rankings_count = 1

(***************************************************************************)
(* Properties of the run: failures after stage 1, the stream's end, the    *)
(* title and the metadata.                                                 *)
(***************************************************************************)
\* The text stage3_synthesize_final returns when the chairman call failed.
SynthesisSentinel == "Error: Unable to generate final synthesis."

\* C16: a run past stage 1 has one synthesis result, made when the chairman
\* call ends; when that call fails the result names the chairman and holds
\* the sentinel text, the run goes on to its end, and what run_full_council
\* returns holds the stage-1 answers, the stage-2 rankings and the metadata
\* as they were before stage 3.
C16_FailedSynthesisStillReturned ==
    /\ (status3 \in {"ok", "fail"}) = (stage3_result # << >>)
    /\ stage3_result # << >> => stage3_result.model = CHAIRMAN_MODEL
    /\ status3 = "fail" =>
          /\ pc \in {"closing", "done"}
          /\ stage3_result.response = SynthesisSentinel
          /\ mode = "batch" =>
                /\ result.stage3 = stage3_result
                /\ result.stage1 = stage1_results
                /\ ModelsOf(result.stage1) = OkModels(status1)
                /\ result.stage2 = stage2_results
                /\ ModelsOf(result.stage2) = OkModels(status2)
                /\ result.metadata.label_to_model = label_to_model
                /\ result.metadata.aggregate_rankings = aggregate_rankings

C16_Witness ==
    /\ mode = "batch" /\ pc = "done" /\ status3 = "fail"
    /\ Len(result.stage1) > 1
    /\ Len(result.stage2) > 1
    /\ result.metadata.aggregate_rankings # << >>

\* Stage 2 has ended without a ranking: every invocation failed, or the
\* collected texts all parse to nothing.
NoRankingCame ==
    /\ AllTerminal(status2)
    /\ \/ OkModels(status2) = {}
       \/ /\ status3 # "idle"
          /\ \A i \in 1..Len(stage2_results) :
                stage2_results[i].parsed_ranking = << >>

\* C17: when stage 1 had a success and stage 2 ended without a ranking, the
\* run is not an error: once stage 2 is collected the aggregate ranking is
\* the empty list, the registry names exactly the stage-1 successes, the
\* chairman has been called, and the result returned is not the error
\* result.
C17_EmptyStage2IsTolerated ==
    (OkModels(status1) # {} /\ NoRankingCame) =>
        /\ pc \in {"stage2", "stage3", "closing", "done"}
        /\ pc # "stage2" =>
              /\ status3 # "idle"
              /\ aggregate_rankings = << >>
              /\ {label_to_model[l] : l \in DOMAIN label_to_model}
                    = OkModels(status1)
              /\ Cardinality(DOMAIN label_to_model)
                    = Cardinality(OkModels(status1))
        /\ (pc = "done" /\ mode = "batch") =>
              /\ result.stage3.model = CHAIRMAN_MODEL
              /\ result.stage2 = stage2_results
              /\ result.metadata.aggregate_rankings = << >>
        /\ (pc = "done" /\ mode = "stream") => status3 \in {"ok", "fail"}

\* Every judge failed after two stage-1 successes, and the run returned.
C17_Witness ==
    /\ mode = "batch" /\ pc = "done"
    /\ Cardinality(OkModels(status1)) = 2
    /\ OkModels(status2) = {}
    /\ status3 = "ok"

TerminalEvents == {i \in 1..Len(events) : events[i] \in {"complete", "error"}}

\* C18: a stream never holds more than one terminal event, a terminal event
\* is the last event, and a stream that has ended holds one.
C18_OneTerminalEventLast ==
    mode = "stream" =>
        /\ Cardinality(TerminalEvents) <= 1
        /\ TerminalEvents # {} => (TerminalEvents = {Len(events)} /\ pc = "done")
        /\ pc = "done" => TerminalEvents # {}

\* The stream ended with error after all three stages had completed.
C18_Witness ==
    /\ mode = "stream" /\ pc = "done"
    /\ events[Len(events)] = "error"
    /\ \E i \in 1..Len(events) : events[i] = "stage3_complete"

\* C19: in both endpoints the title invocation of a first message is
\* outstanding only once stage 1 has been started, and it is awaited only
\* after stage 3 has ended.
C19_TitleConcurrentWithStage1 ==
    /\ title_task = "running" => Issued(status1) = Models
    /\ pc = "title" => status3 \in {"ok", "fail"}

\* The streaming endpoint alone: its title task is created together with the
\* stage-1 fan-out and is awaited in the closing steps.
C19_StreamTitleConcurrent ==
    mode = "stream" => C19_TitleConcurrentWithStage1

\* C20: whatever run_full_council returns, its metadata holds the registry,
\* the aggregate ranking and the had-context flag.
C20_MetadataAlwaysComplete ==
    (mode = "batch" /\ pc = "done") =>
        DOMAIN result.metadata
            = {"label_to_model", "aggregate_rankings", "had_context"}

(***************************************************************************)
(* Properties of the conversation storage.                                 *)
(***************************************************************************)
AddCalls == {"add_user_message", "add_assistant_message"}

\* The latest create_conversation of the id among the first n calls (0 when
\* there is none).
RECURSIVE LastCreate(_, _)
LastCreate(conversation_id, n) ==
    IF n = 0 THEN 0
    ELSE IF /\ log[n].op = "create_conversation"
            /\ log[n].id = conversation_id
         THEN n
         ELSE LastCreate(conversation_id, n - 1)

Created(conversation_id) == LastCreate(conversation_id, Len(log)) > 0

\* The messages handed to the add calls on the id, among calls first..n.
RECURSIVE AddedBetween(_, _, _)
AddedBetween(conversation_id, first, n) ==
    IF n < first THEN << >>
    ELSE IF log[n].op \in AddCalls /\ log[n].id = conversation_id
         THEN Append(AddedBetween(conversation_id, first, n - 1), log[n].arg)
         ELSE AddedBetween(conversation_id, first, n - 1)

AddedSinceCreated(conversation_id) ==
    AddedBetween(conversation_id,
                 LastCreate(conversation_id, Len(log)) + 1, Len(log))

\* The title given by the latest update_conversation_title on the id among
\* calls first..n, the default title when there is none.
RECURSIVE TitleBetween(_, _, _)
TitleBetween(conversation_id, first, n) ==
    IF n < first THEN "New Conversation"
    ELSE IF /\ log[n].op = "update_conversation_title"
            /\ log[n].id = conversation_id
         THEN log[n].arg
         ELSE TitleBetween(conversation_id, first, n - 1)

TitleSinceCreated(conversation_id) ==
    TitleBetween(conversation_id,
                 LastCreate(conversation_id, Len(log)) + 1, Len(log))

LatestCall == log[Len(log)]

\* Whether the conversation of the latest call existed when it was called.
ExistedAtLatestCall == LastCreate(LatestCall.id, Len(log) - 1) > 0

\* C21: add_user_message and add_assistant_message on an existing
\* conversation return True; a conversation holds exactly the messages of
\* the add calls made on it since it was created, in call order, so each
\* call appended one message and left the earlier ones alone; and the add
\* calls leave the id and the title as they were.
C21_AddAppendsOneMessage ==
    /\ (/\ log # << >>
        /\ LatestCall.op \in AddCalls
        /\ ExistedAtLatestCall) => ret = TRUE
    /\ \A id \in ConversationIds :
          Created(id) =>
             /\ files[id].messages = AddedSinceCreated(id)
             /\ files[id].id = id
             /\ files[id].title = TitleSinceCreated(id)

\* C21's case: three messages added to a conversation, the title changed
\* before the last of them.
C21_Witness ==
    /\ Len(log) = MaxCalls
    /\ LatestCall.op = "add_assistant_message"
    /\ ret = TRUE
    /\ log[Len(log) - 1].op = "update_conversation_title"
    /\ log[Len(log) - 1].id = LatestCall.id
    /\ Len(files[LatestCall.id].messages) = 2
    /\ files[LatestCall.id].messages[1].role = "user"

\* C22: update_conversation_title on an existing conversation returns True,
\* get_conversation then returns the new title with the id and the
\* messages unchanged; on an id without a conversation it returns False
\* and no conversation comes to exist.
C22_TitleUpdate ==
    /\ (log # << >> /\ LatestCall.op = "update_conversation_title") =>
          IF ExistedAtLatestCall
          THEN /\ ret = TRUE
               /\ get_conversation(files, LatestCall.id).title
                     = LatestCall.arg
               /\ get_conversation(files, LatestCall.id).id = LatestCall.id
               /\ get_conversation(files, LatestCall.id).messages
                     = AddedSinceCreated(LatestCall.id)
          ELSE /\ ret = FALSE
               /\ get_conversation(files, LatestCall.id) = << >>
    /\ \A id \in ConversationIds : files[id] # << >> => Created(id)

\* C22's case: a title update on a missing id, then one on a conversation
\* that holds a message.
C22_Witness ==
    /\ Len(log) = MaxCalls
    /\ log[1].op = "update_conversation_title"
    /\ files[log[1].id] = << >>
    /\ LatestCall.op = "update_conversation_title"
    /\ LatestCall.id # log[1].id
    /\ ret = TRUE
    /\ Len(files[LatestCall.id].messages) = 1
    /\ files[LatestCall.id].title # DefaultTitle

(***************************************************************************)
(* Properties of the request: the context, the events, the invocations     *)
(* and the writes to the conversation.                                     *)
(***************************************************************************)
RunEntered == Issued(status1) # {}

\* The roles of the messages that were stored before the user message of
\* this request: the user message is the one after the messages that were
\* there when the request arrived.
StoredBeforeUserMessage ==
    [i \in 1..Len(conversation) |-> files[RequestedId].messages[i].role]

\* C23: the prior turns handed to the stages of a run are all the messages
\* stored before the current user message, the most recent assistant turn
\* included.
C23_ContextIsAllPriorTurns ==
    RunEntered => previous_messages = StoredBeforeUserMessage

StreamOpening ==
    << "stage1_start", "stage1_complete", "stage2_start", "stage2_complete",
       "stage3_start", "stage3_complete" >>

\* C24: a stream that holds complete holds the six stage events in stage
\* order, then title_complete if it holds one, then complete, each once;
\* and title_complete comes only on the first message of a conversation.
C24_StreamEventOrder ==
    (mode = "stream" /\ "complete" \in Range(events)) =>
        /\ events = StreamOpening
                       \o (IF "title_complete" \in Range(events)
                           THEN << "title_complete" >> ELSE << >>)
                       \o << "complete" >>
        /\ "title_complete" \in Range(events) => Len(conversation) = 0

\* A first message whose stream ended with complete after title_complete.
C24_Witness ==
    /\ mode = "stream" /\ pc = "done"
    /\ Len(conversation) = 0
    /\ Len(events) = Len(StreamOpening) + 2
    /\ events[Len(events)] = "complete"

\* C25: query_model is called at most once per council member and stage and
\* at most once for the chairman; once stage 1 has returned it was called
\* once for every member; stage 2 queues an invocation for every member,
\* whatever the member's stage-1 outcome, and once stage 2 has returned it
\* was called once for every member.
C25_OneInvocationPerMemberAndStage ==
    /\ \A m \in Models : queries.stage1[m] <= 1 /\ queries.stage2[m] <= 1
    /\ queries.stage3 <= 1
    /\ (RunEntered /\ pc # "stage1") =>
          \A m \in Models : queries.stage1[m] = 1
    /\ pc = "stage2" => Issued(status2) = Models
    /\ (Issued(status2) # {} /\ pc # "stage2") =>
          \A m \in Models : queries.stage2[m] = 1

\* Stage 2 has returned; a member that failed in stage 1 was asked to rank.
C25_Witness ==
    /\ pc = "stage3"
    /\ queries.stage3 = 1
    /\ \E m \in Models : status1[m] = "fail" /\ queries.stage2[m] = 1

AssistantWrites ==
    {i \in 1..Len(log) : log[i].op = "add_assistant_message"}

InFlight(status) ==
    {m \in DOMAIN status : status[m] \in {"queued", "running"}}

NoStageInvocationInFlight ==
    /\ InFlight(status1) = {}
    /\ InFlight(status2) = {}
    /\ status3 # "running"

\* C26: the assistant message of a run is stored at most once, and only
\* when stage 3 has ended or run_full_council returned its error for an
\* empty stage 1; and no step writes to the conversation while a stage-1,
\* stage-2 or stage-3 invocation of the run is queued or running.
C26_WritesOutsideTheStages ==
    /\ [](/\ Cardinality(AssistantWrites) <= 1
          /\ AssistantWrites # {} =>
                \/ status3 \in Terminal
                \/ mode = "batch" /\ result = ErrorResult)
    /\ [][log' # log => NoStageInvocationInFlight]_vars

\* A stream on a first message stored the user message, the title and the
\* assistant message.
C26_Witness ==
    /\ mode = "stream" /\ pc = "done"
    /\ Len(log) = 3
    /\ log[2].op = "update_conversation_title"
    /\ log[3].op = "add_assistant_message"

(***************************************************************************)
(* Termination of the run.                                                 *)
(***************************************************************************)
\* C27: under fairness run_full_council returns, with its complete tuple
\* after stage 3 or with its error tuple after an empty stage 1, and by then
\* every invocation of each fan-out it made had been admitted and had
\* ended: no invocation is left queued for a slot.
C27_RunTerminates ==
    <>(/\ pc = "done"
       /\ \A m \in Models : status1[m] \in Terminal /\ queries.stage1[m] = 1
       /\ \/ /\ status3 \in Terminal
             /\ \A m \in Models :
                   status2[m] \in Terminal /\ queries.stage2[m] = 1
          \/ /\ result = ErrorResult
             /\ Issued(status2) = {})

\* With one slot, all four rankings were collected one after another and
\* the run returned.
C27_Witness ==
    /\ max_concurrent = 1
    /\ pc = "done"
    /\ status3 \in Terminal
    /\ \A m \in Models : status2[m] \in Terminal

(***************************************************************************)
(* Properties of the context.                                              *)
(***************************************************************************)
\* C28: the had_context flag that a run returns is true exactly when the
\* prompts of its three stages carried a context section.
C28_HadContextIffInPrompts ==
    pc = "returned" =>
        (result.metadata.had_context
            <=> (/\ prompts.stage1.with_context
                 /\ prompts.stage2.with_context
                 /\ prompts.stage3.with_context))

(***************************************************************************)
(* Properties of concurrent requests.                                      *)
(***************************************************************************)
StoredNow == files[RequestedId].messages

\* The messages of the conversation before either request arrived.
StoredAtFirst ==
    [i \in 1..Len(conversation) |-> StoredMessage(conversation[i])]

AssistantMessagesIn(messages) ==
    {i \in 1..Len(messages) : messages[i].role = "assistant"}

BothFinished == \A r \in Requests : requests[r].pc = "done"

\* C29: with two requests interleaved on one conversation the stored
\* messages are always the ones that were there followed by every message
\* handed to an add call so far, in call order: none is lost or overwritten;
\* and when both requests have finished the conversation holds the user
\* message of each and two assistant messages more than before.
C29_NoMessageLost ==
    /\ StoredNow = StoredAtFirst \o AddedBetween(RequestedId, 1, Len(log))
    /\ BothFinished =>
          /\ \A r \in Requests :
                \E i \in 1..Len(StoredNow) :
                   StoredNow[i] = UserMessage(ContentOf(r))
          /\ Cardinality(AssistantMessagesIn(StoredNow))
                = Cardinality(AssistantMessagesIn(StoredAtFirst)) + 2
          /\ Len(StoredNow) = Len(StoredAtFirst) + 4

\* A batch and a stream request overlapped on a conversation that held a
\* turn: both user messages were stored before either assistant message.
C29_Witness ==
    /\ BothFinished
    /\ Len(conversation) = 2
    /\ StoredNow[3].role = "user"
    /\ StoredNow[4].role = "user"
    /\ StoredNow[5].role = "assistant"
    /\ StoredNow[6].role = "assistant"
    /\ requests["r1"].mode # requests["r2"].mode

=============================================================================
